---- MODULE Spec2Model ----
(***************************************************************************)
(* Model of src/backend/executor/nodeBitmapAnd.c (ADAM fork of PostgreSQL) *)
(*                                                                         *)
(* A BitmapAnd node owns an array of sub-plan states.  MultiExecBitmapAnd  *)
(* first moves a VA (ADAM) index scan to the end of the array, then        *)
(* executes the sub-plans in array order and ANDs their TID bitmaps,       *)
(* configuring the ADAM scan clause right before the VA scan is executed.  *)
(*                                                                         *)
(* Array positions are the C positions (0-based); the TLA+ sequence        *)
(* element for C position p is bitmapplans[p + 1].                         *)
(***************************************************************************)
EXTENDS Integers, Sequences, FiniteSets, TLC

\* ---------------------------------------------------------------- bounds
MaxPlans == 3      \* largest number of sub-plans of a BitmapAnd node
MaxTid   == 2      \* tuple identifiers are 1..MaxTid
MaxLimit == 1      \* node->limit ranges over 0..MaxLimit
MaxCalls == 2      \* number of MultiExecBitmapAnd calls on one node
MaxParam == 1      \* executor parameters are 1..MaxParam
MaxRescans == 2    \* number of ExecReScanBitmapAnd calls on one node

TIDs   == 1..MaxTid
Limits == 0..MaxLimit
Params == 1..MaxParam

\* ------------------------------------------------------- values and kinds
\* A pointer to a node: NULL, a TIDBitmap holding a set of tids, or a node
\* of some other type.
NULL      == [tag |-> "NULL", tids |-> {}]
NotBitmap == [tag |-> "Other", tids |-> {}]
Bitmap(s) == [tag |-> "TIDBitmap", tids |-> s]
Bitmaps   == {Bitmap(s) : s \in SUBSET TIDs}

\* What MultiExecProcNode(subnode) may hand back.
SubResults == Bitmaps \cup {NULL, NotBitmap}

\* Kind of a sub-plan state: "VA" is a BitmapIndexScanState whose relation
\* descriptor is set and whose access method is VA_AM_OID; "Plain" is any
\* other sub-plan state.
Kinds == {"Plain", "VA"}

VARIABLES
    kind,          \* kind[h]: kind of the sub-plan state with handle h
    bitmapplans,   \* node->bitmapplans: array of handles
    nplans,        \* node->nplans
    limit,         \* node->limit
    hasClause,     \* node->ps.plan->adamPlanClause != NULL
    check_tid,     \* adamPlanClause->check_tid
    nn_limit,      \* adamPlanClause->nn_limit
    adamScanClause,\* adamScanClause[h]: scanState->adamScanClause != NULL
    biss_result,   \* biss_result[h]: scanState->biss_result
    pc,            \* position of the running MultiExecBitmapAnd call
    i,             \* loop counter of the second loop
    result,        \* local: TIDBitmap *result
    no_intersect,  \* local: bool no_intersect
    returned,      \* value returned by the last finished call
    error,         \* message of the elog(ERROR) that ended the call, or ""
    orig,          \* bitmapplans as it was when the current call started
    executed,      \* handles passed to MultiExecProcNode in this call
    outs,          \* what each of them returned, in the same order
    accs,          \* result after each fold of a sub-plan's bitmap
    seen,          \* clause and sink as seen by each executed VA scan
    calls,         \* number of calls started so far
    entry,         \* the clause fields as they were when the call started
    chgParam,      \* node->ps.chgParam (a set of parameters; NULL is {})
    subChgParam,   \* subChgParam[h]: chgParam of the sub-plan state h
    rescanned,     \* rescanned[h]: ExecReScan calls on h by the last rescan
    rescans,       \* number of ExecReScanBitmapAnd calls so far
    ended,         \* ended[h]: ExecEndNode calls on h (h = 0: on NULL)
    life,          \* "alive" until ExecEndBitmapAnd has run, then "ended"
    serialized,    \* two executions: their use of the clause is serialized
    writer,        \* two executions: which one wrote the clause last
    rplans,        \* rplans[e]: bitmapplans of the node state of e
    rlimit,        \* rlimit[e]: limit of the node state of e
    rpc,           \* rpc[e]: position of the call of e
    ri,            \* ri[e]: its loop counter
    rresult,       \* rresult[e]: its local result
    rno_intersect, \* rno_intersect[e]: its local no_intersect
    robs           \* robs[e]: what the VA scans of e found in the clause

vars == <<kind, bitmapplans, nplans, limit, hasClause, check_tid, nn_limit,
          adamScanClause, biss_result, pc, i, result, no_intersect,
          returned, error, orig, executed, outs, accs, seen, calls, entry,
          chgParam, subChgParam, rescanned, rescans, ended, life,
          serialized, writer, rplans, rlimit, rpc, ri, rresult,
          rno_intersect, robs>>

\* State of two executions of the same plan, each with its own node state.
raceVars == <<serialized, writer, rplans, rlimit, rpc, ri, rresult,
              rno_intersect, robs>>

Execs == {1, 2}

\* State that only rescan and shutdown change.
lifeVars == <<chgParam, subChgParam, rescanned, rescans, ended, life>>

\* ------------------------------------------------------ tidbitmap.c calls
tbm_create == Bitmap({})

tbm_intersect(a, b) == Bitmap(a.tids \cap b.tids)

tbm_is_empty(a) == a.tids = {}

\* ------------------------------------------------------------- helpers
\* The test of lines 121-125 and 143-147 on a sub-plan state.
IsAdamScan(h) == kind[h] = "VA"

\* Variant: the exchange without the temporary.
Swap_NoTmp(bp, p, q) == [bp EXCEPT ![p + 1] = bp[q + 1]]

Swap(bp, p, q) == [bp EXCEPT ![p + 1] = bp[q + 1], ![q + 1] = bp[p + 1]]

\* Variant: the access-method test is missing, every entry is moved.
ReorderStep_AnyScan(bp, p, n) ==
    IF p # n - 1 THEN Swap(bp, n - 1, p) ELSE bp

\* Variant: the first loop never moves an entry.
ReorderStep_NoSwap(bp, p, n) == bp

\* Body of the first loop for position p.
ReorderStep(bp, p, n) ==
    IF IsAdamScan(bp[p + 1]) /\ p # n - 1 THEN Swap(bp, n - 1, p) ELSE bp

RECURSIVE ReorderFrom(_, _, _)
ReorderFrom(bp, p, n) ==
    IF p < n THEN ReorderFrom(ReorderStep(bp, p, n), p + 1, n) ELSE bp

\* The first loop of MultiExecBitmapAnd.
Reorder(bp, n) == ReorderFrom(bp, 0, n)

\* Variant: check_tid is not reset at position 0.
ClauseCheckTid_Sticky(p) == TRUE

\* Variants: the position test inverted; the limit set at every position.
ClauseCheckTid_Inverted(p) == p = 0

ClauseNnLimit_Always(p, lim) == lim

\* check_tid and nn_limit written to the clause for a VA scan at position p.
ClauseCheckTid(p) == p # 0

ClauseNnLimit(p, lim) == IF p # 0 THEN lim ELSE -1

\* Variant: no_intersect is never set.
NoIntersect_Never(h, clause) == FALSE

\* no_intersect after the ADAM block for sub-plan h.
NoIntersect(h, clause) == IsAdamScan(h) /\ clause

\* result on entry to MultiExecProcNode for sub-plan h.
ResultBeforeExec(h, res) ==
    IF IsAdamScan(h) /\ res = NULL THEN tbm_create ELSE res

\* Variant: the result of the sub-plan is not checked.
Unrecognized_Never(sub) == FALSE

\* Variant: only the NULL test.
Unrecognized_NullOnly(sub) == sub = NULL

\* The test guarding elog(ERROR, "unrecognized result from subplan").
Unrecognized(sub) == sub = NULL \/ sub.tag # "TIDBitmap"

\* Variant: the sub-plan's bitmap is always adopted.
Merge_Adopt(res, ni, sub) == sub

\* The if/else that folds subresult into result.
Merge(res, ni, sub) ==
    IF res = NULL \/ ni THEN sub ELSE tbm_intersect(res, sub)

\* Variant: the loop is never left early.
LoopBreak_Never(res) == FALSE

\* The test guarding the break out of the second loop.
LoopBreak(res) == tbm_is_empty(res)

\* Variant: the check is missing.
ZeroInputs_Unchecked(res) == FALSE

\* The test guarding elog(ERROR, "BitmapAnd doesn't support zero inputs").
ZeroInputs(res) == res = NULL

ErrUnrecognized == "unrecognized result from subplan"
ErrZeroInputs   == "BitmapAnd doesn't support zero inputs"

\* ------------------------------------------------- rescan and shutdown
\* UpdateChangedParamSet(subnode, newchg): newchg is merged into the
\* sub-plan's chgParam.
UpdateChangedParamSet(sub, newchg) == sub \cup newchg

\* Variant: the changed parameters are signalled even when there are none
\* and replace what the sub-plan had.
SignalledChgParam_Replace(sub, own) == own

\* chgParam of a sub-plan after the signalling step of ExecReScanBitmapAnd.
SignalledChgParam(sub, own) ==
    IF own # {} THEN UpdateChangedParamSet(sub, own) ELSE sub

\* Variant: every sub-plan is rescanned at once.
ReScansNow_Always(sub) == TRUE

\* The test guarding ExecReScan(subnode).
ReScansNow(sub) == sub = {}

\* Body of the loop of ExecReScanBitmapAnd for position p; st holds the
\* chgParam of the sub-plans and the ExecReScan calls made so far.
ReScanStep(st, bp, p, own) ==
    LET h == bp[p + 1]
        c == SignalledChgParam(st.chg[h], own)
    IN  [chg |-> [st.chg EXCEPT ![h] = c],
         cnt |-> IF ReScansNow(c) THEN [st.cnt EXCEPT ![h] = @ + 1]
                                  ELSE st.cnt]

RECURSIVE ReScanFrom(_, _, _, _, _)
ReScanFrom(st, bp, p, n, own) ==
    IF p < n THEN ReScanFrom(ReScanStep(st, bp, p, own), bp, p + 1, n, own)
             ELSE st

\* Variant: the NULL test is missing.
EndsChild_Always(h) == TRUE

\* The test guarding ExecEndNode(bitmapplans[i]); handle 0 is NULL.
EndsChild(h) == h # 0

\* Body of the loop of ExecEndBitmapAnd for position p.
EndStep(cnt, bp, p) ==
    IF EndsChild(bp[p + 1]) THEN [cnt EXCEPT ![bp[p + 1]] = @ + 1] ELSE cnt

RECURSIVE EndFrom(_, _, _, _)
EndFrom(cnt, bp, p, n) ==
    IF p < n THEN EndFrom(EndStep(cnt, bp, p), bp, p + 1, n) ELSE cnt

\* ---------------------------------------------------------------- Init
\* State after ExecInitBitmapAnd: the array holds the handles in plan
\* order.  The plan (kinds of the sub-plans, the clause pointer) and the
\* limit are inputs.  The clause node is zero-filled when it is made.
InitNode ==
    /\ nplans \in 0..MaxPlans
    /\ kind \in [1..nplans -> Kinds]
    /\ bitmapplans = [h \in 1..nplans |-> h]
    /\ limit \in Limits
    /\ hasClause \in BOOLEAN
    /\ check_tid = FALSE
    /\ nn_limit = 0
    /\ adamScanClause = [h \in 1..nplans |-> FALSE]
    /\ biss_result = [h \in 1..nplans |-> NULL]
    /\ pc = "idle"
    /\ i = 0
    /\ result = NULL
    /\ no_intersect = FALSE
    /\ returned = NULL
    /\ error = ""
    /\ orig = bitmapplans
    /\ executed = <<>>
    /\ outs = <<>>
    /\ accs = <<>>
    /\ seen = <<>>
    /\ calls = 0
    /\ entry = [check_tid |-> check_tid, nn_limit |-> nn_limit]
    /\ chgParam = {}
    /\ subChgParam = [h \in 1..nplans |-> {}]
    /\ rescanned = [h \in 1..nplans |-> 0]
    /\ rescans = 0
    /\ ended = [h \in 0..nplans |-> 0]
    /\ life = "alive"

\* No second execution.
InitNoRace ==
    /\ serialized = TRUE
    /\ writer = 0
    /\ rplans = [e \in Execs |-> <<>>]
    /\ rlimit = [e \in Execs |-> 0]
    /\ rpc = [e \in Execs |-> "idle"]
    /\ ri = [e \in Execs |-> 0]
    /\ rresult = [e \in Execs |-> NULL]
    /\ rno_intersect = [e \in Execs |-> FALSE]
    /\ robs = [e \in Execs |-> <<>>]

Init == InitNode /\ InitNoRace

\* -------------------------------------------------------------- actions
\* Entry of MultiExecBitmapAnd up to the head of the second loop: locals
\* are initialised and the first loop reorders the array.  The caller may
\* have changed node->limit since the previous call.
ExecBegin ==
    /\ pc = "idle"
    /\ life = "alive"
    /\ calls < MaxCalls
    /\ calls' = calls + 1
    /\ entry' = [check_tid |-> check_tid, nn_limit |-> nn_limit]
    /\ orig' = bitmapplans
    /\ bitmapplans' = Reorder(bitmapplans, nplans)
    /\ i' = 0
    /\ result' = NULL
    /\ no_intersect' = FALSE
    /\ returned' = NULL
    /\ error' = ""
    /\ executed' = <<>>
    /\ outs' = <<>>
    /\ accs' = <<>>
    /\ seen' = <<>>
    /\ pc' = "loop"
    /\ UNCHANGED <<kind, nplans, limit, hasClause, check_tid, nn_limit,
                   adamScanClause, biss_result>>
    /\ UNCHANGED lifeVars
    /\ UNCHANGED raceVars

\* One pass of the second loop from its head to the call of
\* MultiExecProcNode: the ADAM block configures a VA scan.
Configure ==
    /\ pc = "loop"
    /\ i < nplans
    /\ LET h == bitmapplans[i + 1] IN
        /\ result' = ResultBeforeExec(h, result)
        /\ no_intersect' = NoIntersect(h, hasClause)
        /\ IF IsAdamScan(h)
           THEN /\ biss_result' = [biss_result EXCEPT ![h] = result']
                /\ adamScanClause' = [adamScanClause EXCEPT ![h] = hasClause]
                /\ IF hasClause
                   THEN /\ check_tid' = ClauseCheckTid(i)
                        /\ nn_limit' = ClauseNnLimit(i, limit)
                   ELSE UNCHANGED <<check_tid, nn_limit>>
           ELSE UNCHANGED <<biss_result, adamScanClause, check_tid, nn_limit>>
    /\ pc' = "exec"
    /\ UNCHANGED <<kind, bitmapplans, nplans, limit, hasClause, i, returned,
                   error, orig, executed, outs, accs, seen, calls, entry>>
    /\ UNCHANGED lifeVars
    /\ UNCHANGED raceVars

\* MultiExecProcNode(subnode) returns sub; the rest of the loop body checks
\* it, folds it into result and either breaks or goes to the next position.
\* MultiExecProcNode rescans a sub-plan whose chgParam is set before it
\* runs it, which clears that chgParam.
ChildReturn(sub) ==
    /\ pc = "exec"
    /\ LET h == bitmapplans[i + 1] IN
        /\ executed' = Append(executed, h)
        /\ outs' = Append(outs, sub)
        /\ seen' = IF IsAdamScan(h)
                   THEN Append(seen, [h |-> h, pos |-> i,
                                      clause |-> adamScanClause[h],
                                      check_tid |-> check_tid,
                                      nn_limit |-> nn_limit,
                                      sink |-> biss_result[h]])
                   ELSE seen
    /\ IF Unrecognized(sub)
       THEN /\ error' = ErrUnrecognized
            /\ pc' = "error"
            /\ UNCHANGED <<result, i, accs>>
       ELSE /\ result' = Merge(result, no_intersect, sub)
            /\ accs' = Append(accs, result')
            /\ error' = error
            /\ IF LoopBreak(result')
               THEN pc' = "exit" /\ i' = i
               ELSE pc' = "loop" /\ i' = i + 1
    /\ subChgParam' = [subChgParam EXCEPT ![bitmapplans[i + 1]] = {}]
    /\ UNCHANGED <<kind, bitmapplans, nplans, limit, hasClause, check_tid,
                   nn_limit, adamScanClause, biss_result, no_intersect,
                   returned, orig, calls, entry>>
    /\ UNCHANGED <<chgParam, rescanned, rescans, ended, life>>
    /\ UNCHANGED raceVars

\* The second loop ran off the end of the array.
LoopEnd ==
    /\ pc = "loop"
    /\ i >= nplans
    /\ pc' = "exit"
    /\ UNCHANGED <<kind, bitmapplans, nplans, limit, hasClause, check_tid,
                   nn_limit, adamScanClause, biss_result, i, result,
                   no_intersect, returned, error, orig, executed, outs,
                   accs, seen, calls, entry>>
    /\ UNCHANGED lifeVars
    /\ UNCHANGED raceVars

\* After the second loop: the zero-inputs check and the return.
Finish ==
    /\ pc = "exit"
    /\ IF ZeroInputs(result)
       THEN /\ error' = ErrZeroInputs
            /\ pc' = "error"
            /\ returned' = returned
       ELSE /\ returned' = result
            /\ pc' = "done"
            /\ error' = error
    /\ UNCHANGED <<kind, bitmapplans, nplans, limit, hasClause, check_tid,
                   nn_limit, adamScanClause, biss_result, i, result,
                   no_intersect, orig, executed, outs, accs, seen, calls,
                   entry>>
    /\ UNCHANGED lifeVars
    /\ UNCHANGED raceVars

\* The caller gets the bitmap back; before it executes the node again it
\* may set another limit.
Return(lim) ==
    /\ pc = "done"
    /\ calls < MaxCalls
    /\ limit' = lim
    /\ pc' = "idle"
    /\ UNCHANGED <<kind, bitmapplans, nplans, hasClause, check_tid,
                   nn_limit, adamScanClause, biss_result, i, result,
                   no_intersect, returned, error, orig, executed, outs,
                   accs, seen, calls, entry>>
    /\ UNCHANGED lifeVars
    /\ UNCHANGED raceVars

Next ==
    \/ ExecBegin
    \/ Configure
    \/ \E sub \in SubResults : ChildReturn(sub)
    \/ LoopEnd
    \/ Finish
    \/ \E lim \in Limits : Return(lim)

Spec == Init /\ [][Next]_vars

\* Results of the sub-plans used where the tids do not matter.
LifeResults == {Bitmap({}), Bitmap(TIDs), NULL}

NextCall ==
    \/ ExecBegin
    \/ Configure
    \/ \E sub \in LifeResults : ChildReturn(sub)
    \/ LoopEnd
    \/ Finish
    \/ \E lim \in Limits : Return(lim)

\* A call runs to its end: MultiExecBitmapAnd is synchronous, and every
\* sub-plan it executes returns.
FairSpec ==
    /\ Init
    /\ [][NextCall]_vars
    /\ WF_vars(Configure)
    /\ WF_vars(\E sub \in LifeResults : ChildReturn(sub))
    /\ WF_vars(LoopEnd)
    /\ WF_vars(Finish)

\* State that MultiExecBitmapAnd reads or writes.
execVars == <<kind, bitmapplans, nplans, limit, hasClause, check_tid,
              nn_limit, adamScanClause, biss_result, pc, i, result,
              no_intersect, returned, error, orig, executed, outs, accs,
              seen, calls, entry>>

\* Between two calls the executor changes parameters: it sets the chgParam
\* of the node, or a change is queued for one of the sub-plans.
Signal ==
    /\ pc = "idle"
    /\ life = "alive"
    /\ rescans < MaxRescans
    /\ \E t \in 0..nplans, c \in SUBSET Params :
          /\ chgParam' = IF t = 0 THEN c ELSE chgParam
          /\ subChgParam' = [h \in 1..nplans |->
                                IF h = t THEN c ELSE subChgParam[h]]
    /\ <<chgParam', subChgParam'>> # <<chgParam, subChgParam>>
    /\ UNCHANGED <<rescanned, rescans, ended, life>>
    /\ UNCHANGED execVars
    /\ UNCHANGED raceVars

\* ExecReScanBitmapAnd.
ReScan ==
    /\ pc = "idle"
    /\ life = "alive"
    /\ rescans < MaxRescans
    /\ LET st == ReScanFrom([chg |-> subChgParam,
                             cnt |-> [h \in 1..nplans |-> 0]],
                            bitmapplans, 0, nplans, chgParam)
       IN  /\ subChgParam' = st.chg
           /\ rescanned' = st.cnt
    /\ rescans' = rescans + 1
    /\ UNCHANGED <<chgParam, ended, life>>
    /\ UNCHANGED execVars
    /\ UNCHANGED raceVars

\* ExecEndBitmapAnd, called once when the plan is shut down (also after a
\* call has failed).
End ==
    /\ pc \in {"idle", "done", "error"}
    /\ life = "alive"
    /\ ended' = EndFrom(ended, bitmapplans, 0, nplans)
    /\ life' = "ended"
    /\ UNCHANGED <<chgParam, subChgParam, rescanned, rescans>>
    /\ UNCHANGED execVars
    /\ UNCHANGED raceVars

NextLife ==
    \/ ExecBegin
    \/ Configure
    \/ \E sub \in LifeResults : ChildReturn(sub)
    \/ LoopEnd
    \/ Finish
    \/ \E lim \in Limits : Return(lim)
    \/ ReScan
    \/ End

\* Initialisation, calls, rescans and shutdown of one node.
SpecLife == Init /\ [][NextLife]_vars

NextReScan ==
    \/ Signal
    \/ ReScan

\* A node whose plan has no clause and no limit; neither is read by
\* ExecReScanBitmapAnd.
InitReScan ==
    /\ Init
    /\ limit = 0
    /\ hasClause = FALSE

\* Parameter changes and rescans of a node.
SpecReScan == InitReScan /\ [][NextReScan]_vars

\* A node some of whose sub-plan states were not initialised: the array is
\* zero-filled (palloc0) and those entries are still NULL.
InitPartial ==
    /\ nplans \in 0..MaxPlans
    /\ kind \in [1..nplans -> Kinds]
    /\ bitmapplans \in [1..nplans -> 0..nplans]
    /\ \A p \in 1..nplans : bitmapplans[p] \in {0, p}
    /\ limit \in Limits
    /\ hasClause \in BOOLEAN
    /\ check_tid = FALSE
    /\ nn_limit = 0
    /\ adamScanClause = [h \in 1..nplans |-> FALSE]
    /\ biss_result = [h \in 1..nplans |-> NULL]
    /\ pc = "idle"
    /\ i = 0
    /\ result = NULL
    /\ no_intersect = FALSE
    /\ returned = NULL
    /\ error = ""
    /\ orig = bitmapplans
    /\ executed = <<>>
    /\ outs = <<>>
    /\ accs = <<>>
    /\ seen = <<>>
    /\ calls = 0
    /\ entry = [check_tid |-> check_tid, nn_limit |-> nn_limit]
    /\ chgParam = {}
    /\ subChgParam = [h \in 1..nplans |-> {}]
    /\ rescanned = [h \in 1..nplans |-> 0]
    /\ rescans = 0
    /\ ended = [h \in 0..nplans |-> 0]
    /\ life = "alive"
    /\ InitNoRace

NextEnd == End

\* Shutdown of a node that may be partially initialised.
SpecEnd == InitPartial /\ [][NextEnd]_vars

\* ------------------------------------------------------ two executions
\* Two node states made from the same plan are executed at the same time
\* (each by its own MultiExecBitmapAnd call); plan->adamPlanClause, and so
\* check_tid and nn_limit, is common to both.

\* State of the single node, which these calls leave alone.
raceFrame == <<kind, bitmapplans, nplans, limit, hasClause, adamScanClause,
               biss_result, pc, i, result, no_intersect, returned, error,
               orig, executed, outs, accs, seen, calls, entry>>

InitRace ==
    /\ InitNode
    /\ limit = 0
    /\ serialized \in BOOLEAN
    /\ writer = 0
    /\ rplans = [e \in Execs |-> bitmapplans]
    /\ rlimit \in [Execs -> Limits]
    /\ rpc = [e \in Execs |-> "idle"]
    /\ ri = [e \in Execs |-> 0]
    /\ rresult = [e \in Execs |-> NULL]
    /\ rno_intersect = [e \in Execs |-> FALSE]
    /\ robs = [e \in Execs |-> <<>>]

\* Entry and first loop of the call of e.
RBegin(e) ==
    /\ rpc[e] = "idle"
    /\ rplans' = [rplans EXCEPT ![e] = Reorder(rplans[e], nplans)]
    /\ ri' = [ri EXCEPT ![e] = 0]
    /\ rresult' = [rresult EXCEPT ![e] = NULL]
    /\ rno_intersect' = [rno_intersect EXCEPT ![e] = FALSE]
    /\ rpc' = [rpc EXCEPT ![e] = "loop"]
    /\ UNCHANGED <<serialized, writer, rlimit, robs, check_tid, nn_limit>>
    /\ UNCHANGED raceFrame
    /\ UNCHANGED lifeVars

\* Second loop of the call of e, from its head to MultiExecProcNode.  When
\* the executions are serialized, e waits while the other one is between
\* this step and the return of its sub-plan.
RConfigure(e) ==
    /\ rpc[e] = "loop"
    /\ ri[e] < nplans
    /\ serialized => \A o \in Execs \ {e} : rpc[o] # "exec"
    /\ LET h == rplans[e][ri[e] + 1] IN
        /\ rresult' = [rresult EXCEPT ![e] = ResultBeforeExec(h, rresult[e])]
        /\ rno_intersect' =
              [rno_intersect EXCEPT ![e] = NoIntersect(h, hasClause)]
        /\ IF IsAdamScan(h) /\ hasClause
           THEN /\ check_tid' = ClauseCheckTid(ri[e])
                /\ nn_limit' = ClauseNnLimit(ri[e], rlimit[e])
                /\ writer' = e
           ELSE UNCHANGED <<check_tid, nn_limit, writer>>
    /\ rpc' = [rpc EXCEPT ![e] = "exec"]
    /\ UNCHANGED <<serialized, rplans, rlimit, ri, robs>>
    /\ UNCHANGED raceFrame
    /\ UNCHANGED lifeVars

\* The sub-plan of e returns sub; rest of the loop body.
RChildReturn(e, sub) ==
    /\ rpc[e] = "exec"
    /\ LET h == rplans[e][ri[e] + 1] IN
        robs' = IF IsAdamScan(h) /\ hasClause
                THEN [robs EXCEPT ![e] =
                         Append(@, [pos |-> ri[e], writer |-> writer,
                                    check_tid |-> check_tid,
                                    nn_limit |-> nn_limit])]
                ELSE robs
    /\ IF Unrecognized(sub)
       THEN /\ rpc' = [rpc EXCEPT ![e] = "error"]
            /\ UNCHANGED <<rresult, ri>>
       ELSE LET r == Merge(rresult[e], rno_intersect[e], sub) IN
            /\ rresult' = [rresult EXCEPT ![e] = r]
            /\ IF LoopBreak(r)
               THEN rpc' = [rpc EXCEPT ![e] = "exit"] /\ ri' = ri
               ELSE /\ rpc' = [rpc EXCEPT ![e] = "loop"]
                    /\ ri' = [ri EXCEPT ![e] = @ + 1]
    /\ UNCHANGED <<serialized, writer, rplans, rlimit, rno_intersect,
                   check_tid, nn_limit>>
    /\ UNCHANGED raceFrame
    /\ UNCHANGED lifeVars

\* The second loop of e ran off the end of the array.
RLoopEnd(e) ==
    /\ rpc[e] = "loop"
    /\ ri[e] >= nplans
    /\ rpc' = [rpc EXCEPT ![e] = "exit"]
    /\ UNCHANGED <<serialized, writer, rplans, rlimit, ri, rresult,
                   rno_intersect, robs, check_tid, nn_limit>>
    /\ UNCHANGED raceFrame
    /\ UNCHANGED lifeVars

\* The zero-inputs check and the return of the call of e.
RFinish(e) ==
    /\ rpc[e] = "exit"
    /\ rpc' = [rpc EXCEPT ![e] =
                  IF ZeroInputs(rresult[e]) THEN "error" ELSE "done"]
    /\ UNCHANGED <<serialized, writer, rplans, rlimit, ri, rresult,
                   rno_intersect, robs, check_tid, nn_limit>>
    /\ UNCHANGED raceFrame
    /\ UNCHANGED lifeVars

NextRace ==
    \E e \in Execs :
        \/ RBegin(e)
        \/ RConfigure(e)
        \/ \E sub \in LifeResults : RChildReturn(e, sub)
        \/ RLoopEnd(e)
        \/ RFinish(e)

SpecRace == InitRace /\ [][NextRace]_vars

\* ------------------------------------------------- vocabulary of the claims
\* Handles of the VA (similarity) scans and of the other sub-plans.
VAs    == {h \in 1..nplans : kind[h] = "VA"}
Plains == {h \in 1..nplans : kind[h] = "Plain"}

\* C position of handle h in array bp.
PosOf(bp, h) == (CHOOSE p \in 1..Len(bp) : bp[p] = h) - 1

Range(sq) == {sq[k] : k \in 1..Len(sq)}

\* Intersection of a non-empty family of tid sets.
InterAll(F) == {t \in TIDs : \A s \in F : t \in s}

\* The current call has ended (normally or by elog(ERROR)).
Ended == pc \in {"done", "error"}

\* Handles the current call did not execute.
Skipped == (1..nplans) \ Range(executed)

\* ------------------------------------------------------------------ C1
\* C1: with n >= 1 sub-plans that are all plain, a call that returns
\* returns exactly the intersection of the bitmaps of all n sub-plans:
\* of those the executed sub-plans returned and of whatever the skipped
\* ones would have returned.  The statement does not mention the array
\* order of the sub-plans, and the bitmap of each sub-plan ranges over all
\* tid sets, so it covers every permutation of the children.
C1_Intersection ==
    (pc = "done" /\ nplans >= 1 /\ VAs = {}) =>
        \A f \in [Skipped -> SUBSET TIDs] :
            returned = Bitmap(InterAll({outs[k].tids : k \in 1..Len(outs)}
                                       \cup {f[h] : h \in Skipped}))

C1_Witness ==
    /\ pc = "done" /\ nplans >= 2 /\ VAs = {}
    /\ Len(executed) = nplans
    /\ returned.tids # {}
    /\ returned # outs[1]

\* ------------------------------------------------------------------ C2
\* C2: once result is empty after folding a sub-plan's bitmap into it, that
\* sub-plan is the last one executed in the call, the loop is left, and the
\* call returns the empty bitmap; a sub-plan that returns the empty bitmap
\* leaves result empty.
C2_ShortCircuit ==
    /\ \A k \in 1..Len(accs) :
          accs[k].tids = {} =>
              /\ k = Len(executed)
              /\ pc \in {"exit", "done", "idle"}
              /\ pc \in {"done", "idle"} => returned = Bitmap({})
    /\ \A k \in 1..Len(outs) :
          outs[k] = Bitmap({}) => (Len(accs) >= k /\ accs[k].tids = {})

C2_Witness ==
    /\ pc = "done"
    /\ Len(executed) = 2 /\ nplans = 3
    /\ outs[1].tids # {} /\ outs[2].tids # {}
    /\ returned = Bitmap({})

\* ------------------------------------------------------------------ C3
\* C3: with n > 1 sub-plans of which exactly one is a VA scan, after the
\* first loop the VA scan is at position n - 1, and if it is executed it is
\* the last sub-plan executed in the call.
C3_ProbeLast ==
    (calls > 0 /\ nplans > 1 /\ Cardinality(VAs) = 1) =>
        /\ bitmapplans[nplans] \in VAs
        /\ \A k \in 1..Len(executed) :
              executed[k] \in VAs =>
                  /\ k = Len(executed)
                  /\ \A j \in 1..(k - 1) : executed[j] \in Plains

C3_Witness ==
    /\ nplans = 3 /\ Cardinality(VAs) = 1
    /\ orig[1] \in VAs
    /\ calls = 1
    /\ Len(executed) = nplans

C5_SoleProbe ==
    (nplans = 1 /\ VAs = {1} /\ hasClause /\ Ended) =>
        /\ nn_limit = -1
        /\ check_tid = FALSE
        /\ pc = "done" => returned = outs[1]

C5_Witness ==
    /\ nplans = 1 /\ VAs = {1} /\ hasClause
    /\ pc = "done"
    /\ limit = MaxLimit
    /\ returned.tids = TIDs

\* ------------------------------------------------------------------ C6
\* C6 as stated: with n >= 2 sub-plans of which exactly one is a VA scan
\* and a clause in the plan, after every call that returns the clause has
\* nn_limit = node->limit and check_tid = TRUE.
C6_ClauseAfterEveryCall ==
    (nplans >= 2 /\ Cardinality(VAs) = 1 /\ hasClause /\ pc = "done") =>
        /\ nn_limit = limit
        /\ check_tid = TRUE

\* C6 as amended: the same, after every call in which the VA scan was
\* executed.
C6_ClauseWhenProbeRuns ==
    (/\ nplans >= 2 /\ Cardinality(VAs) = 1 /\ hasClause /\ Ended
     /\ Range(executed) \cap VAs # {}) =>
        /\ nn_limit = limit
        /\ check_tid = TRUE

C6_Witness ==
    /\ nplans = 3 /\ Cardinality(VAs) = 1 /\ hasClause
    /\ pc = "done"
    /\ Range(executed) \cap VAs # {}
    /\ limit = MaxLimit
    /\ calls = 2

C8_TwoProbesRejected ==
    (Cardinality(VAs) > 1) => (executed = <<>> /\ pc # "done")

\* ------------------------------------------------------------------ C9
\* C9: a call on a node with no sub-plans executes no sub-plan, returns
\* nothing and ends with the zero-inputs error.
C9_ZeroInputs ==
    (nplans = 0) =>
        /\ executed = <<>>
        /\ pc # "done"
        /\ returned = NULL
        /\ pc \notin {"idle", "loop", "exit"} =>
              (pc = "error" /\ error = ErrZeroInputs)

C9_Witness ==
    nplans = 0 /\ pc = "error" /\ error = ErrZeroInputs

\* ----------------------------------------------------------------- C10
\* C10: when a sub-plan returns NULL or a node that is not a TIDBitmap, the
\* call ends there with the unrecognized-result error: that sub-plan is the
\* last one executed and nothing is returned.
C10_Unrecognized ==
    \A k \in 1..Len(outs) :
        outs[k] \notin Bitmaps =>
            /\ k = Len(executed)
            /\ pc = "error"
            /\ error = ErrUnrecognized
            /\ returned = NULL

C10_Witness ==
    /\ pc = "error" /\ error = ErrUnrecognized
    /\ nplans = 3 /\ Len(executed) = 2
    /\ outs[2] = NotBitmap

\* ----------------------------------------------------------------- C13
\* C13: a call on a node with n >= 1 sub-plans that returns has executed at
\* least one sub-plan and returns a TIDBitmap (not NULL): the value of
\* result after the last fold.
C13_NonNullResult ==
    (pc = "done" /\ nplans >= 1) =>
        /\ Len(executed) >= 1
        /\ returned # NULL
        /\ returned \in Bitmaps
        /\ Len(accs) = Len(executed)
        /\ returned = accs[Len(accs)]

C13_Witness ==
    /\ pc = "done" /\ nplans = 3
    /\ Len(executed) = 3
    /\ returned = Bitmap(TIDs)

\* ----------------------------------------------------------------- C14
\* C14: with at most one VA scan, the first loop leaves the array as it is
\* when there is no VA scan or the VA scan is already last; so the second
\* call on a node finds and keeps the order the first call left.
C14_ReorderIdempotent ==
    (calls > 0 /\ Cardinality(VAs) <= 1) =>
        /\ (VAs = {} \/ orig[nplans] \in VAs) => bitmapplans = orig
        /\ calls = 2 => bitmapplans = orig

C14_Witness ==
    /\ calls = 2 /\ nplans = 3
    /\ VAs = {1}
    /\ orig = <<3, 2, 1>>
    /\ bitmapplans = orig

\* ----------------------------------------------------------------- C16
\* C16 as stated: whenever a VA scan is executed its biss_result is the
\* value of result at that moment; at a position > 0 that is the
\* intersection of the bitmaps returned by all sub-plans executed before it
\* in the call and is not empty, at position 0 it is a new empty bitmap.
C16_SinkIsAccumulator ==
    \A k \in 1..Len(seen) :
        LET s == seen[k] IN
            IF s.pos > 0
            THEN /\ s.sink = accs[s.pos]
                 /\ s.sink = Bitmap(InterAll({outs[j].tids : j \in 1..s.pos}))
                 /\ s.sink.tids # {}
            ELSE s.sink = Bitmap({})

\* The statement of C16 on nodes with at most one VA scan.
C16_SinkWithOneProbe ==
    (Cardinality(VAs) <= 1) => C16_SinkIsAccumulator

\* ----------------------------------------------------------------- C20
\* C20 as stated: when the plan has no clause, a call that returns on a
\* node with n >= 1 sub-plans, VA scans among them, returns the
\* intersection of the bitmaps of all sub-plans.
C20_ProbeIntersects ==
    (pc = "done" /\ nplans >= 1 /\ VAs # {} /\ ~hasClause) =>
        \A f \in [Skipped -> SUBSET TIDs] :
            returned = Bitmap(InterAll({outs[k].tids : k \in 1..Len(outs)}
                                       \cup {f[h] : h \in Skipped}))

\* The statement of C20 on nodes with n >= 2 sub-plans and one VA scan.
C20_ProbeIntersectsAfterOthers ==
    (nplans >= 2 /\ Cardinality(VAs) = 1) => C20_ProbeIntersects

\* ----------------------------------------------------------------- C11
\* C11: a call of ExecReScanBitmapAnd treats every sub-plan: when the
\* node's chgParam is not empty it is merged into the sub-plan's chgParam;
\* a sub-plan whose chgParam is empty after that is rescanned exactly once
\* by the call, and one whose chgParam is not empty is not rescanned by it.
C11_ReScan ==
    [][rescans' = rescans + 1 =>
        \A h \in 1..nplans :
            LET c == IF chgParam # {} THEN subChgParam[h] \cup chgParam
                                      ELSE subChgParam[h]
            IN  /\ subChgParam'[h] = c
                /\ rescanned'[h] = IF c = {} THEN 1 ELSE 0]_vars

C11_Witness ==
    /\ rescans > 0 /\ nplans = 3
    /\ \E h1, h2 \in 1..nplans :
          /\ rescanned[h1] = 1 /\ subChgParam[h1] = {}
          /\ rescanned[h2] = 0 /\ subChgParam[h2] # {}

\* ----------------------------------------------------------------- C12
\* C12: ExecEndBitmapAnd calls ExecEndNode exactly once on every sub-plan
\* state in the array and never on a NULL entry, whatever entries are NULL.
C12_EndEachOnce ==
    /\ ended[0] = 0
    /\ \A h \in 1..nplans : ended[h] <= 1
    /\ life = "ended" =>
          \A h \in 1..nplans :
              ended[h] = IF bitmapplans[h] = h THEN 1 ELSE 0

C12_Witness ==
    /\ life = "ended" /\ nplans = 3
    /\ bitmapplans = <<1, 0, 3>>
    /\ ended[1] = 1 /\ ended[2] = 0 /\ ended[3] = 1

\* ----------------------------------------------------------------- C18
\* C18: after initialisation the array holds the n handles in plan order;
\* after any calls and rescans it holds every one of the n handles exactly
\* once and n is what it was; so shutdown calls ExecEndNode exactly once on
\* every sub-plan state.
C18_Permutation ==
    /\ DOMAIN kind = 1..nplans
    /\ Len(bitmapplans) = nplans
    /\ \A h \in 1..nplans :
          Cardinality({p \in 1..nplans : bitmapplans[p] = h}) = 1
    /\ calls = 0 => bitmapplans = [h \in 1..nplans |-> h]
    /\ ended[0] = 0
    /\ \A h \in 1..nplans : ended[h] = IF life = "ended" THEN 1 ELSE 0

C18_Witness ==
    /\ life = "ended" /\ nplans = 3
    /\ calls = 2 /\ rescans > 0
    /\ bitmapplans = <<3, 2, 1>>
    /\ \A h \in 1..nplans : ended[h] = 1

\* ----------------------------------------------------------------- C15
\* C15: what a VA scan finds when it is executed is set by the call that
\* executes it: check_tid and nn_limit of an attached clause follow from
\* the scan's position and the node's limit, and biss_result is the result
\* of the call so far; nothing is left from an earlier call.
C15_ClauseOverwritten ==
    (pc # "idle") =>
        \A k \in 1..Len(seen) :
            LET s == seen[k] IN
                /\ s.clause = hasClause
                /\ s.clause =>
                      /\ s.check_tid = (s.pos # 0)
                      /\ s.nn_limit = IF s.pos # 0 THEN limit ELSE -1
                /\ s.sink = IF s.pos = 0 THEN Bitmap({}) ELSE accs[s.pos]

C15_Witness ==
    /\ calls = 2 /\ pc = "done"
    /\ Len(seen) = 1 /\ seen[1].clause
    /\ seen[1].nn_limit # entry.nn_limit
    /\ seen[1].sink # Bitmap({})

\* ----------------------------------------------------------------- C19
\* C19: a call ends, and it executes at most n sub-plans: the executed
\* sub-plans are the entries at positions 0..k of the reordered array, in
\* that order, each executed once.
C19_Terminates ==
    /\ [](/\ Len(executed) <= nplans
          /\ \A k \in 1..Len(executed) : executed[k] = bitmapplans[k]
          /\ \A j, k \in 1..Len(executed) :
                j # k => executed[j] # executed[k]
          /\ pc = "loop" => Len(executed) = i)
    /\ (pc = "loop" ~> pc \in {"done", "error"})

C19_Witness ==
    /\ pc = "error" /\ error = ErrUnrecognized
    /\ nplans = 3 /\ Len(executed) = 3
    /\ Cardinality(VAs) = 1

\* ----------------------------------------------------------------- C17
\* C17: when two executions use the same clause, a VA scan of one can be
\* executed while the clause holds what the other one wrote (the witness);
\* when the step that writes the clause and the execution of the VA scan
\* are serialized, every VA scan finds what its own call wrote for it.
C17_SerializedSeesOwn ==
    serialized =>
        \A e \in Execs : \A k \in 1..Len(robs[e]) :
            LET o == robs[e][k] IN
                /\ o.writer = e
                /\ o.check_tid = (o.pos # 0)
                /\ o.nn_limit = IF o.pos # 0 THEN rlimit[e] ELSE -1

C17_Witness ==
    /\ ~serialized
    /\ \E e \in Execs : \E k \in 1..Len(robs[e]) :
          LET o == robs[e][k] IN
              /\ o.writer # e
              /\ o.pos # 0
              /\ o.nn_limit # rlimit[e]

====
